---- MODULE Spec2Model ----
(* A model of time_me/coach.py: the Coach (orchestrator), its two repetition
   policies TimeLimitCoach and ArgCoach, Result and ResultComparison.
   Timer and Runner live in time_me.timer / time_me.runner and are modelled
   from their documented contract. *)
EXTENDS Integers, Sequences, FiniteSets, TLC

(***************************************************************************)
(* Python values.  Every value is a record [t, v]: t is the concrete type,  *)
(* v the payload (always a sequence).                                       *)
(***************************************************************************)
Num(i) == [t |-> "int", v |-> <<i>>]
Str(s) == [t |-> "str", v |-> s]
Tup(s) == [t |-> "tuple", v |-> s]
List(s) == [t |-> "list", v |-> s]
Dict(s) == [t |-> "dict", v |-> s]
Items(d) == [t |-> "dict_items", v |-> [i \in 1..Len(d.v) |-> Tup(d.v[i])]]
Keys(d) == [i \in 1..Len(d.v) |-> d.v[i][1]]
TypeError == [t |-> "TypeError", v |-> <<>>]

IsNumber(x) == x.t = "int"
IsMapping(x) == x.t = "dict"
IsIterable(x) == x.t \in {"str", "tuple", "list", "dict", "dict_items"}
Iter(x) ==
  IF x.t = "dict" THEN Keys(x)
  ELSE IF x.t = "str" THEN [i \in 1..Len(x.v) |-> Str(<<x.v[i]>>)]
  ELSE x.v

Abs(i) == IF i < 0 THEN -i ELSE i
Max(i, j) == IF i >= j THEN i ELSE j
Range(s) == {s[i] : i \in 1..Len(s)}

EmptyArgset == Tup(<<Tup(<<>>), Dict(<<>>)>>)

parse_argset(a) ==
  IF a.t = "tuple" /\ Len(a.v) = 2 /\ a.v[1].t = "tuple" /\ a.v[2].t = "dict"
  THEN a
  ELSE IF IsIterable(a) THEN Tup(<<a, Dict(<<>>)>>)
  ELSE IF IsMapping(a) THEN Tup(<<Tup(<<>>), a>>)
  ELSE TypeError

(* math.isclose(a, b, abs_tol=tol) with the default rel_tol = 1e-9:
   |a - b| <= max(rel_tol * max(|a|, |b|), abs_tol); on integers
   d * RelTolDen <= m is d <= m \div RelTolDen, which keeps every
   intermediate value within 32 bits *)
RelTolDen == 1000000000
isclose(a, b, abs_tol) ==
  \/ a = b
  \/ Abs(a - b) <= Max(Max(Abs(a), Abs(b)) \div RelTolDen, abs_tol)

(* Python ==, on the values of this model *)
PyEq(x, y) ==
  IF x.t = "dict" /\ y.t = "dict" THEN Range(x.v) = Range(y.v)
  ELSE IF x.t = "dict_items" /\ y.t = "dict_items" THEN Range(x.v) = Range(y.v)
  ELSE x.t = y.t /\ x.v = y.v

(* Coach.sane: "True", "False", or "RecursionError" when the recursion on a
   one-character string never ends *)
RECURSIVE sane(_, _, _)
RECURSIVE sane_loop(_, _, _)
(* the sequences are zipped: the tail of the longer one is ignored *)
RECURSIVE sane_loop_zip(_, _, _)
sane_loop_zip(i, j, tol) ==
  IF i = <<>> \/ j = <<>> THEN "True"
  ELSE LET r == sane(Head(i), Head(j), tol)
       IN IF r = "True" THEN sane_loop_zip(Tail(i), Tail(j), tol) ELSE r

sane_loop(i, j, tol) ==
  IF i = <<>> THEN (IF j = <<>> THEN "True" ELSE "False")
  ELSE IF j = <<>> THEN "False"
  ELSE LET r == sane(Head(i), Head(j), tol)
       IN IF r = "True" THEN sane_loop(Tail(i), Tail(j), tol) ELSE r

sane(expected_value, actual, _sanity_tol) ==
  IF PyEq(expected_value, actual) THEN "True"
  ELSE IF IsNumber(actual) /\ IsNumber(expected_value)
          /\ isclose(actual.v[1], expected_value.v[1], _sanity_tol) THEN "True"
  ELSE LET m == IF IsMapping(actual) /\ IsMapping(expected_value)
                THEN sane(Items(expected_value), Items(actual), _sanity_tol)
                ELSE "False"
       IN IF m # "False" THEN m
          ELSE IF IsIterable(actual) /\ IsIterable(expected_value)
                  /\ expected_value.t = actual.t
          THEN IF actual.t = "str" /\ Len(actual.v) = 1 /\ Len(expected_value.v) = 1
               THEN "RecursionError"
               ELSE sane_loop(Iter(expected_value), Iter(actual), _sanity_tol)
          ELSE "False"

(***************************************************************************)
(* Bounds of the model                                                      *)
(***************************************************************************)
MaxLimit == 2      \* largest time_limit of a TimeLimitCoach, in clock ticks
MaxDur == 2        \* longest duration of one timed call, in clock ticks
MaxRepeat == 2     \* largest repeat count n of an ArgCoach
MaxArgsets == 2    \* longest argsets sequence of an ArgCoach
MaxResults == 2    \* Result objects created in one behaviour
MaxZeroCalls == 1  \* timed calls of a run that may take zero ticks
MaxObjs == 1       \* candidates passed to one compare(...)
MaxNum == 3        \* largest small number handed to sane
MaxStrLen == 2     \* longest string handed to sane
MaxSeqLen == 2     \* longest list or tuple handed to sane
MaxBars == 3       \* most Results in a charted ResultComparison

Coaches == {"c1", "c2"}
Funcs == {"f4", "f5"}
(* the candidates: each returns a constant *)
Answer(f) == IF f = "f4" THEN Num(4) ELSE Num(5)

Fixture(k, e) == [key |-> k, expected |-> e]
SanityChoices ==
  { <<>>,
    <<Fixture(Tup(<<>>), Num(6))>>,
    <<Fixture(Tup(<<>>), Num(5)), Fixture(Tup(<<Num(1)>>), Num(6))>>,
    <<Fixture(Tup(<<>>), Num(5)), Fixture(Num(7), Num(5))>> }

ArgChoices ==
  { Tup(<<Tup(<<Num(1)>>), Dict(<<>>)>>),
    Dict(<< <<Str(<<"x">>), Num(1)>> >>),
    Num(7) }
ArgSeqs == {<<Tup(<<>>)>>} \cup UNION {[1..k -> ArgChoices] : k \in 0..MaxArgsets}

(* Coach.__init__, TimeLimitCoach.__init__, ArgCoach.__init__ *)
CoachInit(sa) ==
  [kind |-> "Coach", _sanity_argsets |-> sa, _sanity_tol |-> 1,
   time_limit |-> 0, n |-> 0, argsets |-> <<>>]
TimeLimitCoachInit(limit, sa) ==
  [CoachInit(sa) EXCEPT !.kind = "TimeLimitCoach", !.time_limit = limit]
ArgCoachInit(n, argsets, sa) ==
  [CoachInit(sa) EXCEPT !.kind = "ArgCoach", !.n = n, !.argsets = argsets]

Configs1 ==
  {CoachInit(sa) : sa \in SanityChoices}
  \cup {TimeLimitCoachInit(l, sa) : l \in 1..MaxLimit, sa \in SanityChoices}
  \cup {ArgCoachInit(n, as, <<>>) : n \in 0..MaxRepeat, as \in ArgSeqs}
Configs2 == {TimeLimitCoachInit(1, <<Fixture(Tup(<<>>), Num(5))>>)}

VARIABLES
  cfg,          \* coach -> its configuration (fixed at construction)
  _measured,    \* coach -> set of Result objects (indices into results)
  results,      \* the Result objects created so far: [runner, total_time, n]
  runners,      \* the Runner objects created so far: [func]
  __results__,  \* runner -> coach -> its cached Result, 0 when absent
  pc,           \* "idle", "trial", "sanity", "loop", "window", "compare"
  run,          \* the frame of Coach.__call__ in progress
  cmp,          \* the frame of Coach.compare in progress
  ret,          \* what the last finished top-level call returned or raised
  pure          \* the frame of a function checked on its own: sane, bar

vars == <<cfg, _measured, results, runners, __results__, pc, run, cmp, ret, pure>>

NoRun ==
  [coach |-> "", runner |-> 0, fresh |-> FALSE, via |-> "", si |-> 0,
   timer |-> -1, n |-> 0, calls |-> <<>>, pre_measured |-> {}, pre_cached |-> 0,
   trial |-> <<>>, durs |-> <<>>]
NoCmp == [coach |-> "", objs |-> <<>>, i |-> 0, results |-> <<>>, noargs |-> FALSE, ran |-> 0]
Ret(k, v) == [kind |-> k, val |-> v]
NoPure == [op |-> ""]

Init ==
  /\ cfg \in {f \in [Coaches -> Configs1 \cup Configs2] :
                f["c1"] \in Configs1 /\ f["c2"] \in Configs2}
  /\ _measured = [c \in Coaches |-> {}]
  /\ results = <<>>
  /\ runners = <<>>
  /\ __results__ = <<>>
  /\ pc = "idle"
  /\ run = NoRun
  /\ cmp = NoCmp
  /\ ret = Ret("None", <<>>)
  /\ pure = NoPure

(***************************************************************************)
(* Objects a caller can hand to the Coach                                   *)
(***************************************************************************)
FuncObj(f) == [t |-> "Func", v |-> <<f>>]
RunnerObj(w) == [t |-> "Runner", v |-> <<w>>]
ResultObj(r) == [t |-> "Result", v |-> <<r>>]
Objs ==
  {FuncObj(f) : f \in Funcs}
  \cup {RunnerObj(w) : w \in 1..Len(runners)}
  \cup {ResultObj(r) : r \in 1..Len(results)}

(* time_me.timer.Timer: a running total of clock ticks *)
Timer == 0
Timer_resume(total, elapsed) == total + elapsed
Timer_lt(total, x) == total < x
Timer_float(total) == total

(* time_me.runner: runner(obj) wraps a plain callable in a new Runner;
   Runner.assign_result stores the Result under the coach *)
to_runner(f) == [func |-> f]
NoResults == [c \in Coaches |-> 0]
assign_result(cache, w, c, r) == [cache EXCEPT ![w][c] = r]

(* the exception leaves the frames; a Runner made for this call is garbage *)
Raise(kind, args) ==
  /\ pc' = "idle"
  /\ ret' = Ret(kind, args)
  /\ run' = NoRun
  /\ cmp' = NoCmp
  /\ runners' = IF run.fresh THEN SubSeq(runners, 1, Len(runners) - 1) ELSE runners
  /\ __results__' = IF run.fresh THEN SubSeq(__results__, 1, Len(__results__) - 1)
                    ELSE __results__
  /\ UNCHANGED <<pure, cfg, _measured, results>>

(* Coach.__call__, lines 66-68: wrap the candidate, then go to the sanity loop *)
Enter(c, obj, via) ==
  /\ Len(results) < MaxResults
  /\ LET fresh == obj.t = "Func"
         w == IF fresh THEN Len(runners) + 1 ELSE obj.v[1]
     IN /\ runners' = IF fresh THEN Append(runners, to_runner(obj.v[1])) ELSE runners
        /\ __results__' = IF fresh THEN Append(__results__, NoResults) ELSE __results__
        /\ run' = [NoRun EXCEPT !.coach = c, !.runner = w, !.fresh = fresh,
                                !.via = via, !.si = 1,
                                !.pre_measured = _measured[c],
                                !.pre_cached = IF fresh THEN 0 ELSE __results__[w][c]]
  /\ pc' = "sanity"
  /\ UNCHANGED <<pure, cfg, _measured, results>>

(* coach(runner) with a Runner the caller holds *)
Call(c, obj) ==
  /\ pc = "idle"
  /\ obj.t = "Runner"
  /\ Enter(c, obj, "call")
  /\ ret' = Ret("None", <<>>)
  /\ UNCHANGED cmp

(* @coach.measure on a plain callable *)
measure(c, obj) ==
  /\ pc = "idle"
  /\ obj.t = "Func"
  /\ Enter(c, obj, "measure")
  /\ ret' = Ret("None", <<>>)
  /\ UNCHANGED cmp

(* Coach.trial: the subject of a trial, the keyword that may name it, the
   function under @coach.trial(obj_key), and the calls of the wrapped
   function as <<obj_key, args, kwargs>> *)
Subject == [t |-> "type", v |-> <<"set">>]
Other == [t |-> "type", v |-> <<"list">>]
None == [t |-> "NoneType", v |-> <<>>]
Kw == Str(<<"k">>)
TrialFunc == "f5"
TrialCalls ==
  { <<Num(0), Tup(<<>>), Dict(<<>>)>>,
    <<Num(0), Tup(<<Subject>>), Dict(<<>>)>>,
    <<Num(1), Tup(<<Other>>), Dict(<<>>)>>,
    <<Num(1), Tup(<<Other, Subject>>), Dict(<<>>)>>,
    <<Kw, Tup(<<Other>>), Dict(<<>>)>>,
    <<Kw, Tup(<<>>), Dict(<< <<Kw, Subject>> >>)>>,
    <<Num(0), Tup(<<>>), Dict(<< <<Kw, Subject>> >>)>> }

(* time_me.runner.ObjectRunner: the trial function bound to its subject *)
ObjectRunner(obj, func, args, kwargs) == [func |-> func, obj |-> obj]

(* a missing subject is taken as None, as args.get / kwargs.get would *)
trial_obj_lenient(obj_key, args, kwargs) ==
  IF IsNumber(obj_key)
  THEN IF Len(args.v) <= obj_key.v[1] THEN <<"obj", None>>
       ELSE <<"obj", args.v[obj_key.v[1] + 1]>>
  ELSE IF obj_key \notin Range(Keys(kwargs)) THEN <<"obj", None>>
       ELSE <<"obj", kwargs.v[CHOOSE i \in 1..Len(kwargs.v) : kwargs.v[i][1] = obj_key][2]>>

(* Coach.trial, lines 115-122: the subject, or the ValueError's argument *)
trial_obj(obj_key, args, kwargs) ==
  IF IsNumber(obj_key)
  THEN IF Len(args.v) <= obj_key.v[1] THEN <<"raise", Num(obj_key.v[1] - 1)>>
       ELSE <<"obj", args.v[obj_key.v[1] + 1]>>
  ELSE IF obj_key \notin Range(Keys(kwargs)) THEN <<"raise", obj_key>>
       ELSE <<"obj", kwargs.v[CHOOSE i \in 1..Len(kwargs.v) : kwargs.v[i][1] = obj_key][2]>>

(* the function @coach.trial(obj_key) made is called *)
trial(c, call) ==
  /\ pc = "idle"
  /\ Len(results) < MaxResults
  /\ run' = [NoRun EXCEPT !.coach = c, !.via = "trial", !.trial = call]
  /\ pc' = "trial"
  /\ ret' = Ret("None", <<>>)
  /\ UNCHANGED <<pure, cfg, _measured, results, runners, __results__, cmp>>

(* Coach.trial, lines 115-126: validate, bind the subject, enter __call__ *)
TrialCheck ==
  /\ pc = "trial"
  /\ LET o == trial_obj(run.trial[1], run.trial[2], run.trial[3])
     IN IF o[1] = "raise" THEN Raise("ValueError", <<o[2]>>)
        ELSE /\ runners' = Append(runners, ObjectRunner(o[2], TrialFunc,
                                                        run.trial[2], run.trial[3]))
             /\ __results__' = Append(__results__, NoResults)
             /\ run' = [run EXCEPT !.runner = Len(runners) + 1, !.fresh = TRUE,
                                   !.si = 1, !.trial = <<>>,
                                   !.pre_measured = _measured[run.coach]]
             /\ pc' = "sanity"
             /\ UNCHANGED <<pure, cfg, _measured, results, cmp, ret>>

(* Coach.__call__, lines 70-77: one fixture per step, then the Timer;
   Mismatch is what a fixture that is not sane leads to *)
SanityLoop(Mismatch) ==
  /\ pc = "sanity"
  /\ LET c == run.coach
         sa == cfg[c]._sanity_argsets
     IN IF run.si > Len(sa)
        THEN /\ run' = [run EXCEPT !.timer = Timer, !.n = 0]
             /\ pc' = "loop"
             /\ UNCHANGED <<pure, cfg, _measured, results, runners, __results__, cmp, ret>>
        ELSE LET ak == parse_argset(sa[run.si].key)
                 actual == Answer(runners[run.runner].func)
                 ok == sane(sa[run.si].expected, actual, cfg[c]._sanity_tol)
             IN IF ak = TypeError THEN Raise("TypeError", <<sa[run.si].key>>)
                ELSE IF ok = "RecursionError" THEN Raise("RecursionError", <<>>)
                ELSE IF ok = "False" THEN Mismatch
                ELSE /\ run' = [run EXCEPT !.si = @ + 1]
                     /\ UNCHANGED <<pure, cfg, _measured, results, runners, __results__,
                                    pc, cmp, ret>>

(* the fixture's verdict is ignored *)
SanityStep_unchecked ==
  SanityLoop(/\ run' = [run EXCEPT !.si = @ + 1]
             /\ UNCHANGED <<pure, cfg, _measured, results, runners, __results__, pc, cmp, ret>>)

(* the mismatch is raised, but only after an empty Result has been recorded *)
SanityStep_recorded ==
  SanityLoop(/\ pc' = "idle"
             /\ ret' = Ret("ValueError", <<>>)
             /\ run' = NoRun
             /\ cmp' = NoCmp
             /\ results' = Append(results, [runner |-> run.runner, total_time |-> 0, n |-> 0])
             /\ _measured' = [_measured EXCEPT ![run.coach] = @ \cup {Len(results) + 1}]
             /\ __results__' = assign_result(__results__, run.runner, run.coach, Len(results) + 1)
             /\ UNCHANGED <<pure, cfg, runners>>)

SanityStep ==
  SanityLoop(Raise("ValueError", <<cfg[run.coach]._sanity_argsets[run.si].expected,
                                   Answer(runners[run.runner].func)>>))

(* iter_argsets of the three classes, as "what does next() give after y
   yields": <<"yield", argset>>, <<"stop">> or <<"raise", bad argset>> *)
Coach_iter_argsets(y) ==
  IF y = 0 THEN <<"yield", EmptyArgset>> ELSE <<"stop">>

(* the limit is tested with <= *)
TimeLimitCoach_iter_argsets_le(c, timer) ==
  IF timer <= cfg[c].time_limit THEN <<"yield", EmptyArgset>> ELSE <<"stop">>

(* the comparison is the wrong way round *)
TimeLimitCoach_iter_argsets_gt(c, timer) ==
  IF timer > cfg[c].time_limit THEN <<"yield", EmptyArgset>> ELSE <<"stop">>

TimeLimitCoach_iter_argsets(c, timer) ==
  IF Timer_lt(timer, cfg[c].time_limit) THEN <<"yield", EmptyArgset>> ELSE <<"stop">>

(* the two loops are nested the other way round *)
ArgCoach_iter_argsets_swapped(c, y) ==
  LET K == Len(cfg[c].argsets)
  IN IF K = 0 \/ y >= cfg[c].n * K THEN <<"stop">>
     ELSE LET p == parse_argset(cfg[c].argsets[(y \div cfg[c].n) + 1])
          IN IF p = TypeError THEN <<"raise", cfg[c].argsets[(y \div cfg[c].n) + 1]>>
             ELSE <<"yield", p>>

ArgCoach_iter_argsets(c, y) ==
  LET K == Len(cfg[c].argsets)
  IN IF K = 0 \/ y >= cfg[c].n * K THEN <<"stop">>
     ELSE LET p == parse_argset(cfg[c].argsets[(y % K) + 1])
          IN IF p = TypeError THEN <<"raise", cfg[c].argsets[(y % K) + 1]>>
             ELSE <<"yield", p>>

iter_argsets(c, y, timer) ==
  IF cfg[c].kind = "TimeLimitCoach" THEN TimeLimitCoach_iter_argsets(c, timer)
  ELSE IF cfg[c].kind = "ArgCoach" THEN ArgCoach_iter_argsets(c, y)
  ELSE Coach_iter_argsets(y)

(* _measured is one set shared by all coaches (a class attribute) *)
Finish_shared ==
  LET c == run.coach
      r == Len(results) + 1
  IN /\ results' = Append(results, [runner |-> run.runner,
                                    total_time |-> Timer_float(run.timer),
                                    n |-> run.n])
     /\ __results__' = assign_result(__results__, run.runner, c, r)
     /\ _measured' = [k \in Coaches |-> _measured[k] \cup {r}]
     /\ run' = NoRun
     /\ IF run.via = "compare"
        THEN /\ cmp' = [cmp EXCEPT !.i = @ + 1, !.results = Append(@, r)]
             /\ pc' = "compare"
             /\ ret' = ret
        ELSE /\ cmp' = cmp
             /\ pc' = "idle"
             /\ ret' = IF run.via = "measure" THEN Ret("obj", <<run.runner>>)
                       ELSE Ret("Result", <<r>>)
     /\ UNCHANGED <<pure, cfg, runners>>

(* Coach.__call__, lines 85-88 *)
Finish ==
  LET c == run.coach
      r == Len(results) + 1
  IN /\ results' = Append(results, [runner |-> run.runner,
                                    total_time |-> Timer_float(run.timer),
                                    n |-> run.n])
     /\ __results__' = assign_result(__results__, run.runner, c, r)
     /\ _measured' = [_measured EXCEPT ![c] = @ \cup {r}]
     /\ run' = NoRun
     /\ IF run.via = "compare"
        THEN /\ cmp' = [cmp EXCEPT !.i = @ + 1, !.results = Append(@, r)]
             /\ pc' = "compare"
             /\ ret' = ret
        ELSE /\ cmp' = cmp
             /\ pc' = "idle"
             /\ ret' = IF run.via = "measure" THEN Ret("obj", <<run.runner>>)
                       ELSE Ret("Result", <<r>>)
     /\ UNCHANGED <<pure, cfg, runners>>

(* Coach.__call__, lines 79-81: ask the policy, open the resume window *)
LoopNext ==
  /\ pc = "loop"
  /\ LET nx == iter_argsets(run.coach, Len(run.calls), run.timer)
     IN IF nx[1] = "raise" THEN Raise("TypeError", <<nx[2]>>)
        ELSE IF nx[1] = "stop" THEN Finish
        ELSE /\ run' = [run EXCEPT !.calls = Append(@, nx[2])]
             /\ pc' = "window"
             /\ UNCHANGED <<pure, cfg, _measured, results, runners, __results__, cmp, ret>>

(* the time between two windows is charged to the Timer as well *)
WindowClose_overhead(elapsed) ==
  /\ pc = "window"
  /\ elapsed >= (IF run.n < MaxZeroCalls THEN 0 ELSE 1)
  /\ run' = [run EXCEPT !.timer = Timer_resume(@, elapsed) + run.n, !.n = @ + 1,
                        !.durs = Append(@, elapsed)]
  /\ pc' = "loop"
  /\ UNCHANGED <<pure, cfg, _measured, results, runners, __results__, cmp, ret>>

(* Coach.__call__, lines 82-83: the candidate returns after `elapsed` ticks,
   the window is released, the call is counted; durs keeps the duration of
   every window of the run *)
WindowClose(elapsed) ==
  /\ pc = "window"
  /\ elapsed >= (IF run.n < MaxZeroCalls THEN 0 ELSE 1)
  /\ run' = [run EXCEPT !.timer = Timer_resume(@, elapsed), !.n = @ + 1,
                        !.durs = Append(@, elapsed)]
  /\ pc' = "loop"
  /\ UNCHANGED <<pure, cfg, _measured, results, runners, __results__, cmp, ret>>

(* the exception is caught and the run goes on to record its Result *)
WindowRaise_recorded == pc = "window" /\ Finish

(* Coach.__call__, lines 81-82: the candidate raises inside the window; the
   Timer's scope is left and the exception leaves __call__ (and compare) *)
WindowRaise ==
  /\ pc = "window"
  /\ Raise("Exception", <<run.n>>)

(***************************************************************************)
(* Result: ordered by float(self) = total_time / n.  The quotient is kept   *)
(* exact: total_a/n_a < total_b/n_b iff total_a*n_b < total_b*n_a (n > 0).  *)
(***************************************************************************)
(* the division by n is left out *)
Result_float_total(r) == <<results[r].total_time, 1>>

Result_float(r) == <<results[r].total_time, results[r].n>>
FloatLt(x, y) == x[1] * y[2] < y[1] * x[2]
Result_lt(a, b) == FloatLt(Result_float(a), Result_float(b))
(* float(self) / float(other), as numerator and denominator *)
Result_truediv(a, b) ==
  <<Result_float(a)[1] * Result_float(b)[2], Result_float(a)[2] * Result_float(b)[1]>>

(* sorted(): stable, uses only <; with two or more elements every element
   is compared at least once, so a Result with n = 0 divides by zero *)
RECURSIVE Insert(_, _)
Insert(x, s) ==
  IF s = <<>> THEN <<x>>
  ELSE IF Result_lt(x, Head(s)) THEN <<x>> \o s
  ELSE <<Head(s)>> \o Insert(x, Tail(s))
RECURSIVE sorted(_)
sorted(s) ==
  IF s = <<>> THEN <<>> ELSE Insert(s[Len(s)], sorted(SubSeq(s, 1, Len(s) - 1)))
SortRaises(s) == Len(s) >= 2 /\ \E i \in 1..Len(s) : results[s[i]].n = 0

Orderings(S) == {q \in [1..Cardinality(S) -> S] : Range(q) = S}
ObjSeqs == UNION {[1..k -> Objs] : k \in 1..MaxObjs}
(* the Runner's cache is not consulted *)
NeedsRun_nocache(c, o) == o.t # "Result"

(* Coach.compare, lines 101-108: is the candidate run through __call__ *)
NeedsRun(c, o) ==
  /\ o.t # "Result"
  /\ ~(o.t = "Runner" /\ __results__[o.v[1]][c] # 0)

(* Coach.compare, lines 97-99 *)
compare(c, objs) ==
  /\ pc = "idle"
  /\ Cardinality({i \in 1..Len(objs) : NeedsRun(c, objs[i])}) <= MaxResults - Len(results)
  /\ \E q \in (IF objs = <<>>
               THEN {[i \in 1..Len(o) |-> ResultObj(o[i])] : o \in Orderings(_measured[c])}
               ELSE {objs}) :
       cmp' = [coach |-> c, objs |-> q, i |-> 1, results |-> <<>>,
               noargs |-> (objs = <<>>), ran |-> 0]
  /\ pc' = "compare"
  /\ ret' = Ret("None", <<>>)
  /\ UNCHANGED <<pure, cfg, _measured, results, runners, __results__, run>>

(* Coach.compare, lines 100-108: one candidate per step *)
CompareStep ==
  /\ pc = "compare"
  /\ cmp.i <= Len(cmp.objs)
  /\ LET o == cmp.objs[cmp.i]
         c == cmp.coach
     IN IF o.t = "Result"
        THEN /\ cmp' = [cmp EXCEPT !.i = @ + 1, !.results = Append(@, o.v[1])]
             /\ UNCHANGED <<pure, cfg, _measured, results, runners, __results__, pc, run, ret>>
        ELSE IF ~NeedsRun(c, o)
        THEN /\ cmp' = [cmp EXCEPT !.i = @ + 1,
                                   !.results = Append(@, __results__[o.v[1]][c])]
             /\ UNCHANGED <<pure, cfg, _measured, results, runners, __results__, pc, run, ret>>
        ELSE /\ Enter(c, o, "compare")
             /\ cmp' = [cmp EXCEPT !.ran = @ + 1]
             /\ UNCHANGED ret

(* Coach.compare, line 110 *)
CompareEnd ==
  /\ pc = "compare"
  /\ cmp.i > Len(cmp.objs)
  /\ pc' = "idle"
  /\ cmp' = NoCmp
  /\ ret' = IF SortRaises(cmp.results) THEN Ret("ZeroDivisionError", <<>>)
            ELSE Ret("ResultComparison", sorted(cmp.results))
  /\ UNCHANGED <<pure, cfg, _measured, results, runners, __results__, run>>

Next ==
  \/ \E c \in Coaches, obj \in Objs : Call(c, obj)
  \/ \E c \in Coaches, obj \in Objs : measure(c, obj)
  \/ \E c \in Coaches, call \in TrialCalls : trial(c, call)
  \/ TrialCheck
  \/ SanityStep
  \/ LoopNext
  \/ \E elapsed \in 0..MaxDur : WindowClose(elapsed)
  \/ WindowRaise
  \/ \E c \in Coaches, objs \in {<<>>} \cup ObjSeqs : compare(c, objs)
  \/ CompareStep
  \/ CompareEnd

Spec == Init /\ [][Next]_vars

(***************************************************************************)
(* Runs in which every timed call returns and takes at least one tick, on   *)
(* a TimeLimitCoach c1.  The interpreter runs the loop of __call__ without  *)
(* pause: the policy is asked and the window closed whenever that is the    *)
(* next thing to do.                                                        *)
(***************************************************************************)
LiveInit ==
  /\ Init
  /\ cfg["c1"].kind = "TimeLimitCoach"

Tick == \E elapsed \in 1..MaxDur : WindowClose(elapsed)

LiveNext ==
  \/ \E c \in Coaches, obj \in Objs : Call(c, obj)
  \/ \E c \in Coaches, obj \in Objs : measure(c, obj)
  \/ \E c \in Coaches, call \in TrialCalls : trial(c, call)
  \/ TrialCheck
  \/ SanityStep
  \/ LoopNext
  \/ Tick
  \/ \E c \in Coaches, objs \in {<<>>} \cup ObjSeqs : compare(c, objs)
  \/ CompareStep
  \/ CompareEnd

LiveSpec == LiveInit /\ [][LiveNext]_vars /\ WF_vars(LoopNext) /\ WF_vars(Tick)

(***************************************************************************)
(* Coach.sane on its own: a Coach with tolerance tol is asked whether       *)
(* actual is sane for expected_value.                                       *)
(***************************************************************************)
Chars == {"a", "b"}
Tols == {1, 2}
SmallNums == {Num(i) : i \in 0..MaxNum}
(* numbers large enough for the relative tolerance of isclose to exceed 1 *)
BigNums == {Num(2 * RelTolDen), Num(2 * RelTolDen + 1), Num(2 * RelTolDen + 2)}
Strs == {Str(s) : s \in UNION {[1..k -> Chars] : k \in 0..MaxStrLen}}
Elems ==
  {Num(1), Num(2), Num(4), Str(<<"a">>), Str(<<"b">>), Tup(<<Num(1)>>), List(<<Num(1)>>),
   Dict(<< <<Str(<<"a">>), Num(1)>> >>), Dict(<< <<Str(<<"a">>), Num(4)>> >>)}
Seqs ==
  LET S == UNION {[1..k -> Elems] : k \in 0..MaxSeqLen}
  IN {Tup(q) : q \in S} \cup {List(q) : q \in S}
Dicts ==
  {Dict(<<>>),
   Dict(<< <<Str(<<"a">>), Num(1)>> >>),
   Dict(<< <<Str(<<"a">>), Num(4)>> >>),
   Dict(<< <<Str(<<"b">>), Num(1)>> >>),
   Dict(<< <<Num(1), Num(1)>>, <<Num(2), Num(2)>> >>),
   Dict(<< <<Num(2), Num(2)>>, <<Num(1), Num(1)>> >>)}
Values == SmallNums \cup BigNums \cup Strs \cup Seqs \cup Dicts

SaneInit ==
  /\ \E tol \in Tols :
       cfg = [c \in Coaches |-> [CoachInit(<<>>) EXCEPT !._sanity_tol = tol]]
  /\ _measured = [c \in Coaches |-> {}]
  /\ results = <<>>
  /\ runners = <<>>
  /\ __results__ = <<>>
  /\ pc = "idle"
  /\ run = NoRun
  /\ cmp = NoCmp
  /\ ret = Ret("None", <<>>)
  /\ \E x, y \in Values :
       pure = [op |-> "sane", coach |-> "c1", expected_value |-> x, actual |-> y,
               res |-> "pending"]

(* coach.sane(expected_value, actual) *)
SaneCall ==
  /\ pure.op = "sane"
  /\ pure.res = "pending"
  /\ pure' = [pure EXCEPT !.res = sane(pure.expected_value, pure.actual,
                                       cfg[pure.coach]._sanity_tol)]
  /\ UNCHANGED <<cfg, _measured, results, runners, __results__, pc, run, cmp, ret>>

SaneNext == SaneCall
SaneSpec == SaneInit /\ [][SaneNext]_vars

(***************************************************************************)
(* ResultComparison.bar on its own: a coach has measured k candidates once  *)
(* each, compare() has returned them sorted, and the chart is drawn.        *)
(***************************************************************************)
(* Result.__le__ against a plain number: float(self) <= x *)
Result_le(a, x) == Result_float(a)[1] <= x * Result_float(a)[2]

(* ResultComparison.bar, lines 188-191: the references the bar of `result`
   gets a ratio against; 0 stands for None *)
bar_refs(result, comparisons) ==
  SelectSeq(comparisons, LAMBDA c : ~(c = 0 \/ Result_le(c, 0) \/ c = result))

BarInit ==
  /\ cfg = [c \in Coaches |-> CoachInit(<<>>)]
  /\ \E k \in 1..MaxBars : \E total \in [1..k -> 0..MaxDur] :
       /\ results = [r \in 1..k |-> [runner |-> r, total_time |-> total[r], n |-> 1]]
       /\ runners = [r \in 1..k |-> to_runner("f5")]
       /\ __results__ = [r \in 1..k |-> [NoResults EXCEPT !["c1"] = r]]
       /\ _measured = [c \in Coaches |-> IF c = "c1" THEN 1..k ELSE {}]
  /\ pc = "idle"
  /\ run = NoRun
  /\ cmp = NoCmp
  /\ ret = Ret("ResultComparison", sorted([r \in 1..Len(results) |-> r]))
  /\ pure = [op |-> "bar", source |-> ret.val, i |-> 0, comparisons |-> <<>>,
             msg |-> <<>>]

(* ResultComparison.bar, line 185 *)
BarBegin ==
  /\ pure.op = "bar"
  /\ pure.i = 0
  /\ pure' = [pure EXCEPT !.i = 1, !.comparisons = <<pure.source[1], 0>>]
  /\ UNCHANGED <<cfg, _measured, results, runners, __results__, pc, run, cmp, ret>>

(* ResultComparison.bar, lines 186-195: one bar per step *)
BarStep ==
  /\ pure.op = "bar"
  /\ pure.i >= 1
  /\ pure.i <= Len(pure.source)
  /\ LET result == pure.source[pure.i]
     IN pure' = [pure EXCEPT
                   !.i = @ + 1,
                   !.msg = Append(@, bar_refs(result, pure.comparisons)),
                   !.comparisons = IF result \notin Range(@) THEN <<@[1], result>> ELSE @]
  /\ UNCHANGED <<cfg, _measured, results, runners, __results__, pc, run, cmp, ret>>

BarNext == BarBegin \/ BarStep
BarSpec == BarInit /\ [][BarNext]_vars

TypeOK ==
  /\ pc \in {"idle", "trial", "sanity", "loop", "window", "compare"}
  /\ Len(results) <= MaxResults
  /\ Len(runners) = Len(__results__)

(***************************************************************************)
(* Properties                                                               *)
(***************************************************************************)
InRun == pc \in {"sanity", "loop", "window"}
IsKind(c, k) == cfg[c].kind = k
(* the candidate f gives a value that is not sane for some fixture of c *)
FailsFixture(c, f) ==
  \E i \in 1..Len(cfg[c]._sanity_argsets) :
    sane(cfg[c]._sanity_argsets[i].expected, Answer(f), cfg[c]._sanity_tol) = "False"

(* C1: a run of a candidate that fails one of the coach's fixtures never
   gets a Timer, opens no resume window and counts no timed call; it can
   only be in the sanity loop, which it leaves by raising. *)
C1_NoWindowBeforeSanity ==
  (InRun /\ FailsFixture(run.coach, runners[run.runner].func))
    => /\ pc = "sanity"
       /\ run.timer = -1
       /\ run.calls = <<>>
       /\ run.n = 0

(* a mismatch was raised on the second fixture, after an earlier run of
   another candidate had been timed *)
C1_Witness ==
  /\ pc = "idle"
  /\ ret = Ret("ValueError", <<Num(6), Num(4)>>)
  /\ Len(cfg["c1"]._sanity_argsets) = 2
  /\ _measured["c1"] # {}

(* C2: a run that aborts on a sanity mismatch leaves no Outcome: at the
   raise the measured-set and the runner's cached Result for this coach are
   what they were when the call began and nothing changes in the step, so no
   measured-set ever holds a Result of a candidate that fails a fixture of
   its coach. *)
C2_AbortLeavesNoOutcome ==
  [][/\ (pc = "sanity" /\ pc' = "idle" /\ ret'.kind = "ValueError")
          => /\ _measured[run.coach] = run.pre_measured
             /\ _measured' = _measured
             /\ results' = results
             /\ ~run.fresh => /\ __results__[run.runner][run.coach] = run.pre_cached
                              /\ __results__' = __results__
             /\ run.fresh => /\ Len(runners') = Len(runners) - 1
                             /\ \A w \in 1..Len(runners') : __results__'[w] = __results__[w]
     /\ \A c \in Coaches : \A r \in _measured'[c] :
          ~FailsFixture(c, runners'[results'[r].runner].func)]_vars

(* a mismatch was raised on c1 while a Runner that fails c1's fixture
   holds a Result for c2: its cache and c2's set are as before *)
C2_Witness ==
  /\ pc = "idle"
  /\ ret.kind = "ValueError"
  /\ \E w \in 1..Len(runners) :
       /\ __results__[w]["c2"] \in _measured["c2"]
       /\ __results__[w]["c1"] = 0
       /\ FailsFixture("c1", runners[w].func)

(* the calls a fixed-sweep run makes: the argsets in order, n times over *)
Sweep(c) ==
  [i \in 1..(cfg[c].n * Len(cfg[c].argsets)) |->
     parse_argset(cfg[c].argsets[((i - 1) % Len(cfg[c].argsets)) + 1])]
IsPrefix(s, q) == Len(s) <= Len(q) /\ \A i \in 1..Len(s) : s[i] = q[i]

(* C3: under ArgCoach with repeat count R and K argsets, the timed calls of
   a run are, in order, the K argsets repeated R times; every Result of the
   coach has n = R*K, whichever run of the coach made it. *)
C3_FixedSweepCalls ==
  \A c \in Coaches : IsKind(c, "ArgCoach") =>
    /\ \A r \in _measured[c] : results[r].n = cfg[c].n * Len(cfg[c].argsets)
    /\ (InRun /\ run.coach = c) =>
         /\ IsPrefix(run.calls, Sweep(c))
         /\ run.n <= Len(run.calls)
         /\ Len(run.calls) <= run.n + 1

(* two runs on one ArgCoach with R = 2 and two different argsets *)
C3_Witness ==
  /\ IsKind("c1", "ArgCoach")
  /\ cfg["c1"].n = 2
  /\ Len(cfg["c1"].argsets) = 2
  /\ cfg["c1"].argsets[1] # cfg["c1"].argsets[2]
  /\ Cardinality(_measured["c1"]) = 2
  /\ \A r \in _measured["c1"] : results[r].n = 4

(* C4: under TimeLimitCoach a resume window is open only if the total was
   below time_limit when it opened; once the total has reached the limit no
   window is open, and an open window ends only with the call counted or
   with the candidate's own exception. *)
C4_NoCallAfterLimit ==
  [][/\ (InRun /\ IsKind(run.coach, "TimeLimitCoach"))
          => /\ pc = "window" => run.timer < cfg[run.coach].time_limit
             /\ run.timer >= cfg[run.coach].time_limit => pc = "loop"
     /\ (pc = "window" /\ IsKind(run.coach, "TimeLimitCoach"))
          => \/ /\ pc' = "loop"
                /\ run'.n = run.n + 1
                /\ run'.timer >= run.timer
             \/ /\ pc' = "idle"
                /\ ret'.kind = "Exception"]_vars

(* the last call has carried the total past the limit *)
C4_Witness ==
  /\ pc = "loop"
  /\ IsKind(run.coach, "TimeLimitCoach")
  /\ run.timer > cfg[run.coach].time_limit
  /\ run.n >= 2

(* C5: every Result of a TimeLimitCoach has total_time >= time_limit and
   n >= 1, and every run starts its Timer at 0, whatever ran before. *)
C5_BudgetIsMet ==
  \A c \in Coaches : IsKind(c, "TimeLimitCoach") =>
    /\ \A r \in _measured[c] :
         results[r].total_time >= cfg[c].time_limit /\ results[r].n >= 1
    /\ (pc = "loop" /\ run.coach = c /\ run.calls = <<>>) => run.timer = 0

(* a second run on a TimeLimitCoach that already holds a Result *)
C5_Witness ==
  /\ IsKind("c1", "TimeLimitCoach")
  /\ Cardinality(_measured["c1"]) = 2
  /\ \E r \in _measured["c1"] : results[r].total_time = cfg["c1"].time_limit
  /\ \E r \in _measured["c1"] : results[r].total_time > cfg["c1"].time_limit

(* the step in which compare() with no arguments returns its Outcome Set *)
CompareReturns ==
  pc = "compare" /\ pc' = "idle" /\ ret'.kind = "ResultComparison"
Count(s, x) == Cardinality({i \in 1..Len(s) : s[i] = x})

(* C6: compare() with no arguments returns exactly the measured candidates,
   one Outcome for each measured Runner, none missing and none twice,
   whatever runs came before. *)
C6_EachCandidateOnce ==
  [][(CompareReturns /\ cmp.noargs)
       => LET v == ret'.val
          IN /\ Range(v) = _measured[cmp.coach]
             /\ \A w \in 1..Len(runners) :
                  __results__[w][cmp.coach] # 0
                    => \E i \in 1..Len(v) : results[v[i]].runner = w
             /\ \A i, j \in 1..Len(v) :
                  i # j => results[v[i]].runner # results[v[j]].runner]_vars

(* C7: compare runs a candidate through __call__ exactly when it is not a
   Result and is not a Runner holding a Result for this coach; a Result is
   used as it is and a cached Result is reused with no invocation, and
   compare() with no arguments starts no run and changes neither the
   measured-sets, nor the Results, nor any Runner's cache. *)
C7_CompareReusesCache ==
  [][/\ (pc = "compare" /\ cmp.i <= Len(cmp.objs))
          => LET o == cmp.objs[cmp.i]
                 c == cmp.coach
                 cached == IF o.t = "Runner" THEN __results__[o.v[1]][c] ELSE 0
             IN /\ (pc' = "sanity") <=> (o.t # "Result" /\ cached = 0)
                /\ o.t = "Result"
                     => /\ cmp'.results = Append(cmp.results, o.v[1])
                        /\ UNCHANGED <<_measured, results, runners, __results__>>
                /\ cached # 0
                     => /\ cmp'.results = Append(cmp.results, cached)
                        /\ UNCHANGED <<_measured, results, runners, __results__>>
     /\ (pc = "compare" /\ cmp.noargs)
          => /\ pc' \in {"compare", "idle"}
             /\ UNCHANGED <<_measured, results, runners, __results__>>]_vars

(* compare(runner) on c1 has taken the Result the Runner holds for c1
   without a run, the Runner also holding a Result for c2 *)
C7_Witness ==
  /\ pc = "compare"
  /\ cmp.coach = "c1"
  /\ ~cmp.noargs
  /\ cmp.i = 2
  /\ cmp.ran = 0
  /\ cmp.objs[1].t = "Runner"
  /\ cmp.results = <<__results__[cmp.objs[1].v[1]]["c1"]>>
  /\ __results__[cmp.objs[1].v[1]]["c2"] # 0

(* C8: the Outcome Set compare returns is a permutation of the Results it
   collected, in ascending order of total_time / n; a < b is the order of
   the means and b / a is the quotient of the means. *)
C8_SortedByMean ==
  [][CompareReturns
       => LET v == ret'.val
              t(r) == results[r].total_time
              k(r) == results[r].n
          IN /\ Len(v) = Len(cmp.results)
             /\ \A x \in Range(cmp.results) \cup Range(v) : Count(v, x) = Count(cmp.results, x)
             /\ \A i, j \in 1..Len(v) : i < j => t(v[i]) * k(v[j]) <= t(v[j]) * k(v[i])
             /\ \A a, b \in Range(v) : (k(a) > 0 /\ k(b) > 0) =>
                  /\ Result_lt(a, b) <=> t(a) * k(b) < t(b) * k(a)
                  /\ Result_truediv(b, a)[1] * t(a) * k(b)
                       = Result_truediv(b, a)[2] * t(b) * k(a)]_vars

(* compare returned two Results of different means with the later-made
   one first, the order of the totals being the other way round or a tie *)
C8_Witness ==
  /\ pc = "idle"
  /\ ret.kind = "ResultComparison"
  /\ Len(ret.val) = 2
  /\ ret.val[1] > ret.val[2]
  /\ Result_lt(ret.val[1], ret.val[2])
  /\ results[ret.val[1]].total_time >= results[ret.val[2]].total_time

(* the canonical pair the three shorthands stand for *)
Canonical(a) ==
  IF a.t = "tuple" /\ Len(a.v) = 2 /\ a.v[1].t = "tuple" /\ a.v[2].t = "dict" THEN a
  ELSE IF a.t = "dict" THEN Tup(<<Tup(<<>>), a>>)
  ELSE Tup(<<a, Dict(<<>>)>>)

(* C9: every argset a fixed-sweep run calls the candidate with is the
   canonical pair of the configured shorthand: (s, {}) for a bare sequence
   s, ((), m) for a bare mapping m, the pair itself for an explicit pair. *)
C9_NormalizedArgsets ==
  (InRun /\ IsKind(run.coach, "ArgCoach"))
    => \A i \in 1..Len(run.calls) :
         LET K == Len(cfg[run.coach].argsets)
         IN run.calls[i] = Canonical(cfg[run.coach].argsets[((i - 1) % K) + 1])

(* C10: a run of a fixed-sweep coach whose argsets hold a malformed entry,
   or of a coach with a malformed fixture key, opens no timing window. *)
Malformed(a) == ~(a.t \in {"tuple", "list", "str", "dict"})
C10_TypeErrorBeforeTiming ==
  (/\ InRun
   /\ \/ IsKind(run.coach, "ArgCoach")
           /\ \E i \in 1..Len(cfg[run.coach].argsets) : Malformed(cfg[run.coach].argsets[i])
      \/ \E i \in 1..Len(cfg[run.coach]._sanity_argsets) :
           Malformed(cfg[run.coach]._sanity_argsets[i].key))
    => run.calls = <<>>

(* the subject of the call in the trial frame is among its arguments *)
SubjectPresent ==
  LET key == run.trial[1]
      args == run.trial[2]
      kwargs == run.trial[3]
  IN IF key.t = "int" THEN Len(args.v) >= key.v[1] + 1
     ELSE \E i \in 1..Len(kwargs.v) : kwargs.v[i][1] = key

(* C11: a call of a trial-wrapped function without its subject raises
   ValueError in the validation step: no Runner is made, no fixture has run,
   no Timer exists, and the measured-sets, Results and caches are unchanged;
   with the subject present the step raises nothing, binds that subject and
   enters the sanity loop. *)
C11_TrialValidation ==
  [][pc = "trial"
       => /\ run.si = 0 /\ run.timer = -1 /\ run.calls = <<>> /\ run.runner = 0
          /\ ~SubjectPresent
               => /\ pc' = "idle"
                  /\ ret'.kind = "ValueError"
                  /\ run' = NoRun
                  /\ UNCHANGED <<_measured, results, runners, __results__>>
          /\ SubjectPresent
               => /\ pc' = "sanity"
                  /\ ret' = ret
                  /\ Len(runners') = Len(runners) + 1
                  /\ runners'[Len(runners')].obj = Subject
                  /\ run'.runner = Len(runners')
                  /\ UNCHANGED <<_measured, results>>]_vars

(* a trial on index 1 was refused for a call with one positional argument,
   after an earlier trial with its subject had been measured on the coach *)
C11_Witness ==
  /\ pc = "idle"
  /\ ret = Ret("ValueError", <<Num(0)>>)
  /\ \E r \in _measured["c1"] : "obj" \in DOMAIN runners[results[r].runner]
IsSeq(x) == x.t \in {"list", "tuple"}
Min(i, j) == IF i <= j THEN i ELSE j
SaneDone == pure.op = "sane" /\ pure.res # "pending"

(* C12: for two sequences (lists, tuples) sane is True exactly when they
   are of the same kind, equally long and their elements are pairwise sane
   in order; a difference of kind gives False, and so does every other
   difference whenever the comparisons of the elements themselves return. *)
C12_SequenceSane ==
  (SaneDone /\ IsSeq(pure.expected_value) /\ IsSeq(pure.actual))
    => LET e == pure.expected_value.v
           a == pure.actual.v
           tol == cfg[pure.coach]._sanity_tol
           kind == pure.expected_value.t = pure.actual.t
           el(i) == sane(e[i], a[i], tol)
       IN /\ (pure.res = "True")
               <=> (kind /\ Len(e) = Len(a) /\ \A i \in 1..Len(e) : el(i) = "True")
          /\ ~kind => pure.res = "False"
          /\ (\A i \in 1..Min(Len(e), Len(a)) : el(i) # "RecursionError")
               => pure.res \in {"True", "False"}

(* sane([1, 2], (1, 2)) has returned False *)
C12_Witness ==
  /\ SaneDone
  /\ pure.expected_value = List(<<Num(1), Num(2)>>)
  /\ pure.actual = Tup(<<Num(1), Num(2)>>)
  /\ pure.res = "False"

(* C13: sane returns a definite boolean for every pair of values built
   from numbers, strings, sequences and mappings. *)
C13_SaneIsDefinite ==
  SaneDone => pure.res \in {"True", "False"}

(* C14: two numbers are sane exactly when they differ by no more than the
   coach's tolerance, whatever their magnitude. *)
C14_NumericTolerance ==
  (SaneDone /\ IsNumber(pure.expected_value) /\ IsNumber(pure.actual))
    => ((pure.res = "True")
          <=> Abs(pure.expected_value.v[1] - pure.actual.v[1])
                <= cfg[pure.coach]._sanity_tol)
RECURSIVE Sum(_)
Sum(s) == IF s = <<>> THEN 0 ELSE Head(s) + Sum(Tail(s))

(* the windows of the run in progress are accounted for *)
WindowsAccount ==
  /\ pc \in {"trial", "sanity"}
       => run.timer = -1 /\ run.durs = <<>> /\ run.calls = <<>> /\ run.n = 0
  /\ pc \in {"loop", "window"}
       => /\ run.timer = Sum(run.durs)
          /\ run.n = Len(run.durs)
          /\ Len(run.calls) = run.n + (IF pc = "window" THEN 1 ELSE 0)

(* C15: the candidate is called for timing only inside a window, at most
   one window is open at a time, the call count is the number of windows
   and the Timer's total is the sum of the windows' durations at every
   point of the run; the Result takes exactly that total and that count.
   Sanity calls and the policy add nothing. *)
C15_WindowsAccount ==
  [][/\ WindowsAccount
     /\ WindowsAccount'
     /\ (pc = "sanity" /\ pc' = "sanity") => run'.timer = run.timer
     /\ (pc = "loop" /\ pc' = "window")
          => run'.timer = run.timer /\ run'.n = run.n
             /\ Len(run'.calls) = Len(run.calls) + 1
     /\ (pc = "loop" /\ Len(results') = Len(results) + 1)
          => /\ results'[Len(results')].total_time = Sum(run.durs)
             /\ results'[Len(results')].n = Len(run.calls)]_vars

(* a run is between two windows, three closed so far, of different lengths *)
C15_Witness ==
  /\ pc = "loop"
  /\ Len(run.durs) = 3
  /\ run.durs[1] = 0 /\ run.durs[2] = 2 /\ run.durs[3] = 1
  /\ run.timer = 3

(* every cached Result is the Runner's own and is in its coach's set *)
CachedAreMeasured ==
  \A w \in 1..Len(runners) : \A c \in Coaches :
    __results__[w][c] # 0
      => /\ __results__[w][c] \in _measured[c]
         /\ results[__results__[w][c]].runner = w

(* C16: the step that ends a run of Runner w on coach c makes a Result r
   with r.runner = w, caches it on w under c, adds it to c's measured-set
   and, for coach(runner) and a trial, returns it; at all times every
   cached Result is in the measured-set of the coach it is cached under;
   and no step of a run on c changes the measured-set of another coach or
   a Runner's cache entry for another coach. *)
C16_OutcomeBookkeeping ==
  [][/\ CachedAreMeasured
     /\ CachedAreMeasured'
     /\ (pc = "loop" /\ Len(results') = Len(results) + 1)
          => LET r == Len(results')
             IN /\ results'[r].runner = run.runner
                /\ __results__'[run.runner][run.coach] = r
                /\ r \in _measured'[run.coach]
                /\ _measured'[run.coach] = _measured[run.coach] \cup {r}
                /\ run.via \in {"call", "trial"} => ret' = Ret("Result", <<r>>)
     /\ pc \in {"trial", "sanity", "loop", "window"}
          => \A c \in Coaches \ {run.coach} :
               /\ _measured'[c] = _measured[c]
               /\ \A w \in 1..Min(Len(runners), Len(runners')) :
                    __results__'[w][c] = __results__[w][c]]_vars

(* one Runner has been measured on both coaches and holds a Result for
   each, the later one just returned *)
C16_Witness ==
  /\ pc = "idle"
  /\ ret.kind = "Result"
  /\ \E w \in 1..Len(runners) :
       /\ __results__[w]["c1"] # 0
       /\ __results__[w]["c2"] = ret.val[1]
       /\ __results__[w]["c1"] \in _measured["c1"]
       /\ _measured["c2"] = {ret.val[1]}
(* the means of two Results are equal; the mean of a Result is zero *)
SameMean(a, b) == ~Result_lt(a, b) /\ ~Result_lt(b, a)
ZeroMean(a) == Result_le(a, 0)
(* the latest Result before bar i whose mean differs from bar i's, as a set *)
RecentDistinct(i) ==
  LET J == {j \in 1..(i - 1) : ~SameMean(pure.source[j], pure.source[i])}
  IN {pure.source[j] : j \in {j \in J : \A k \in J : k <= j}}

(* C17: every bar is annotated with ratios against at most two references,
   each of them the fastest Result or the latest Result before the bar
   with a different mean, and never against itself, a Result of mean zero,
   or a Result whose mean ties its own. *)
C17_BarAnnotations ==
  pure.op = "bar"
    => \A i \in 1..Len(pure.msg) :
         /\ Len(pure.msg[i]) <= 2
         /\ \A ref \in Range(pure.msg[i]) :
              /\ ref \in {pure.source[1]} \cup RecentDistinct(i)
              /\ ref # pure.source[i]
              /\ ~ZeroMean(ref)
              /\ ~SameMean(ref, pure.source[i])
(* C18: when the candidate raises inside a window, the window is closed
   with the frame, the exception reaches the caller, no frame of the run or
   of compare is left to retry, and no Outcome is made: the Results, the
   measured-sets and the caches are those of before the run. *)
C18_RaiseLeavesNoOutcome ==
  [][(pc = "window" /\ pc' # "loop")
       => /\ pc' = "idle"
          /\ ret'.kind = "Exception"
          /\ run' = NoRun /\ cmp' = NoCmp
          /\ results' = results
          /\ _measured' = _measured
          /\ _measured[run.coach] = run.pre_measured
          /\ ~run.fresh => /\ __results__' = __results__
                           /\ __results__[run.runner][run.coach] = run.pre_cached
          /\ run.fresh => /\ Len(runners') = Len(runners) - 1
                          /\ \A w \in 1..Len(runners') : __results__'[w] = __results__[w]]_vars

(* the candidate raised in its second timed call, in a run on a coach that
   holds an earlier Outcome, cached on its Runner *)
C18_Witness ==
  /\ pc = "idle"
  /\ ret = Ret("Exception", <<1>>)
  /\ \E c \in Coaches, w \in 1..Len(runners) :
       __results__[w][c] # 0 /\ __results__[w][c] \in _measured[c]
(* C19: once a run on a TimeLimitCoach is in its measurement loop, it ends
   and records its Result: the next Result made is a Result of that coach,
   with a total that has reached time_limit after at most time_limit
   calls of one tick or more each. *)
C19_TimeBoxedRunEnds ==
  \A k \in 0..(MaxResults - 1) : \A c \in Coaches :
    (pc = "loop" /\ run.coach = c /\ IsKind(c, "TimeLimitCoach") /\ Len(results) = k)
      ~> /\ Len(results) > k
         /\ (k + 1) \in _measured[c]
         /\ results[k + 1].total_time >= cfg[c].time_limit
         /\ results[k + 1].n <= cfg[c].time_limit

(* a run under time_limit 2 has ended after two calls of one tick each *)
C19_Witness ==
  /\ pc = "idle"
  /\ ret.kind = "Result"
  /\ cfg["c1"].time_limit = 2
  /\ ret.val[1] \in _measured["c1"]
  /\ results[ret.val[1]].n = 2
  /\ results[ret.val[1]].total_time = 2
(* C20: every Result in a measured-set has n >= 1, so its mean is defined
   and compare never ends in a division by zero. *)
C20_CallCountPositive ==
  /\ \A c \in Coaches : \A r \in _measured[c] : results[r].n >= 1
  /\ ret.kind # "ZeroDivisionError"
====
